---- MODULE Spec2Model ----
(***************************************************************************)
(* Model of the retro-capture coordinator (src/server.js, the S3 server,   *)
(* lines 1-254): the roster of connected phones, the master designation,   *)
(* the session identifier, the capture counter and the messages each       *)
(* socket handler emits.                                                   *)
(*                                                                         *)
(* Strings are sequences of character codes, so that padStart, template    *)
(* concatenation and string comparison are computed as JavaScript does.    *)
(* A clock reading (Date.now()) is the record [s, ms]: whole seconds since *)
(* the epoch and the millisecond within the second; its decimal form is    *)
(* the digits of s followed by ms padded to three digits.                  *)
(***************************************************************************)
EXTENDS Integers, Sequences, FiniteSets, TLC

\* ------------------------------------------------------------------ bounds
MaxIds == 3
MaxTicks == 1
MaxCaptures == 2
MaxLongCaptures == 101
MaxRestarts == 1
MaxUploads == 1
MaxInFlight == 2
MaxRepeats == 2
MaxSteps == 7
MaxArrivals == 2

\* sockets that connect in a run that follows the order of arrivals
MaxPhones == 2

\* captures and upload requests in a run that follows the clips into the
\* bucket
MaxStoreCaptures == 1
MaxRequests == 2

\* captures and half seconds in a run that follows one save of a phone
MaxBusy == 1
MaxBusySteps == 3

\* half seconds in a run in which every save that starts can finish
MaxReturnSteps == 4

\* half seconds in a run long enough for the buffer to fill
MaxBufferSteps == 17

\* --------------------------------------------------------------- constants
\* JavaScript null (let masterClient = null)
Null == "null"
\* the option value the selector sends for "no flash phone"
None == "none"
\* (a counter that starts at one)
CounterStartOne == 0 + 1
\* the first value of captureCounter
CounterStart == 0
\* width of the zero padding of every padStart call
PadWidth == 2

SocketIds == <<"s1", "s2", "s3", "s4", "s5", "s6">>
Ids == {SocketIds[i] : i \in 1..MaxIds}

\* character codes
Ch0 == 48
ChUnderscore == 95

\* the process starts at 2024-12-31 23:59:59.999 (host zone UTC), one
\* millisecond before second, minute, hour, day, month and year roll over
\* app.js: the length of the rolling buffer, of a chunk, of the wait between
\* the tone and saveVideo, of the wait after stop() and of the torch pulse, in
\* milliseconds; Step is the largest granule that divides them all
BUFFER_DURATION == 6000
CHUNK_DURATION == 1000
CaptureWait == 1000
StopWait == 500
FlashPulse == 500
Step == 500

\* the value of initSegment while it is null, and of an event without data
NoSegment == [rec |-> 0, from |-> 0, to |-> 0, heard |-> {}]

\* the value of mediaRecorder before startContinuousRecording() has made one
NoRecorder == [n |-> 0, state |-> "none", since |-> 0, due |-> 0, heard |-> {}]

StartTime == [s |-> 1735689599, ms |-> 999]

\* ---------------------------------------------------------- string helpers
RECURSIVE Digits(_)
\* String(n) for a natural number n
Digits(n) == IF n < 10 THEN <<Ch0 + n>> ELSE Append(Digits(n \div 10), Ch0 + (n % 10))

RECURSIVE padStart(_, _)
\* s.padStart(w, '0'): zeros are prepended only while s is shorter than w
padStart(s, w) == IF Len(s) >= w THEN s ELSE padStart(<<Ch0>> \o s, w)

\* String(Date.now()) for the reading t
TimeString(t) == IF t.s = 0 THEN Digits(t.ms) ELSE Digits(t.s) \o padStart(Digits(t.ms), 3)

RECURSIVE StrLess(_, _)
\* a < b on JavaScript strings: code unit by code unit, a proper prefix is less
StrLess(a, b) ==
  IF Len(b) = 0 THEN FALSE
  ELSE IF Len(a) = 0 THEN TRUE
  ELSE IF Head(a) # Head(b) THEN Head(a) < Head(b)
  ELSE StrLess(Tail(a), Tail(b))

\* clock readings compared as numbers
TimeLess(a, b) == a.s < b.s \/ (a.s = b.s /\ a.ms < b.ms)

\* ------------------------------------------------------------ Date getters
\* days since the epoch and second of the day of a reading
DayNumber(t) == t.s \div 86400
SecondOfDay(t) == t.s % 86400

\* the proleptic Gregorian calendar date of a day number, as new Date(t)
\* resolves it: [year, month (1..12), day]
CivilDate(days) ==
  LET z == days + 719468
      era == z \div 146097
      doe == z - era * 146097
      yoe == (doe - (doe \div 1460) + (doe \div 36524) - (doe \div 146096)) \div 365
      doy == doe - (365 * yoe + (yoe \div 4) - (yoe \div 100))
      mp == (5 * doy + 2) \div 153
      d == doy - ((153 * mp + 2) \div 5) + 1
      m == IF mp < 10 THEN mp + 3 ELSE mp - 9
      y == yoe + era * 400 + (IF m <= 2 THEN 1 ELSE 0)
  IN [year |-> y, month |-> m, day |-> d]

\* the date, time and timestamp fields of a folder name for the reading t:
\* `${year}${month}${day}_${hours}${minutes}${seconds}_${captureTime}`
DateStamp(t) ==
  LET date == CivilDate(DayNumber(t))
      sod == SecondOfDay(t)
      year == Digits(date.year)
      month == padStart(Digits(date.month), PadWidth)
      day == padStart(Digits(date.day), PadWidth)
      hours == padStart(Digits(sod \div 3600), PadWidth)
      minutes == padStart(Digits((sod \div 60) % 60), PadWidth)
      seconds == padStart(Digits(sod % 60), PadWidth)
  IN year \o month \o day \o <<ChUnderscore>>
       \o hours \o minutes \o seconds \o <<ChUnderscore>> \o TimeString(t)

\* (a folder name without the counter field)
FolderNameNoCounter(c, t) == DateStamp(t)

\* (a folder name that ends with the time of day)
FolderNameNoStamp(c, t) ==
  padStart(Digits(c), PadWidth) \o <<ChUnderscore>>
    \o SubSeq(DateStamp(t), 1, Len(DateStamp(t)) - Len(TimeString(t)) - 1)

\* the folder name of trigger-capture for counter value c at reading t:
\* `${counterStr}_${year}${month}${day}_${hours}${minutes}${seconds}_${captureTime}`
FolderName(c, t) ==
  LET counterStr == padStart(Digits(c), PadWidth)
  IN counterStr \o <<ChUnderscore>> \o DateStamp(t)

\* ------------------------------------------------------------------- state
VARIABLES
  masterClient,    \* socket id of the master, or Null
  clients,         \* the Map of connected phones, in insertion order
  sessionId,       \* clock reading taken at start or at the last reset
  captureCounter,  \* number of the next capture folder
  now,             \* the clock Date.now() reads
  sockets,         \* ids of the sockets connected to the io namespace
  usedIds,         \* socket ids handed out so far (an id is never reused)
  sent,            \* messages emitted by the last handler, in emission order
  lastOp,          \* the last event processed: [op, id]
  captures,        \* every capture event created so far, in creation order
  captureLog,      \* per socket id, the capture messages delivered to it
  sessions,        \* every value sessionId has had, in order
  storage,         \* folder names under which an object was stored
  run,             \* number of process restarts so far
  ticks,           \* number of clock advances so far
  lost,            \* ids of sockets whose channel closed with no disconnect event
  channel,         \* per socket id, the messages on their way to that phone
  isFlashPhone,    \* per socket id, the phone's isFlashPhone
  selected,        \* the target of the last honored select-flash-phone and how
                   \* many times in a row it has been selected
  page,            \* the followed phone: "loading" until init() has run
  hasFlash,        \* the followed phone's hasFlash
  audioContext,    \* whether setupAudio() has made the audio context
  mediaRecorder,   \* the followed phone's recorder, or Null
  recordedChunks,  \* its buffer of {data, timestamp}
  initSegment,     \* the first chunk of its recorder, or Null
  isUploading,     \* its isUploading
  tasks,           \* its pending timers, events and fetches
  uploads,         \* every clip it has handed to uploadToS3, in order
  clock,           \* its time since the page loaded, in half seconds
  arrivals,        \* number of capture messages that have reached it
  markers,         \* per capture message that reached it: when it arrived,
                   \* into which recorder its tone was played, what it found
                   \* and what became of its handler
  bufferReady,     \* whether the buffer has ever held secondsNeeded chunks
  connected,       \* whether the followed phone's socket is connected
  myRole,          \* its myRole
  phoneSessionId,  \* its sessionId
  clientCount,     \* the number of phones its status line shows
  issued,          \* per socket id, the capture, role and status messages
                   \* emitted to it, in emission order
  seen,            \* per socket id, the messages of these types its
                   \* handlers have run for, in order
  handled,         \* the types of the messages the followed phone has handled
                   \* while it was waiting after a tone or saving a clip
  captureBtn,      \* the capture button of the followed phone: its disabled flag
                   \* (first set by the page's markup; the click handler lets no
                   \* click through before the role handler has written it)
  requests,        \* the upload requests made so far, each with how far the
                   \* endpoint has come with it
  bucket,          \* the keys of the objects in the bucket
  notified,        \* the requests for which video-uploaded has been sent
  fired            \* per capture, the phones whose torch was fired for it

serverVars == <<masterClient, clients, sessionId, captureCounter, now, sockets, usedIds,
                sent, lastOp, captures, captureLog, sessions, storage, run, ticks>>

agentVars == <<page, hasFlash, audioContext, mediaRecorder, recordedChunks, initSegment,
               isUploading, tasks, uploads, clock, arrivals, markers, bufferReady,
               connected, myRole, phoneSessionId, clientCount, captureBtn>>

inboxVars == <<connected, myRole, phoneSessionId, clientCount, captureBtn>>

orderVars == <<issued, seen, handled>>

storeVars == <<requests, bucket, notified, fired>>

phoneVars == <<lost, channel, isFlashPhone, selected, agentVars, orderVars, storeVars>>

vars == <<serverVars, phoneVars>>

\* ----------------------------------------------------------- Map and io
\* Array.from(clients.keys())
Keys == [i \in 1..Len(clients) |-> clients[i].id]
KeySet == {clients[i].id : i \in 1..Len(clients)}

RECURSIVE Without(_, _)
\* the sequence s without the entries of key id (Map.prototype.delete)
Without(s, id) ==
  IF Len(s) = 0 THEN <<>>
  ELSE IF Head(s).id = id THEN Without(Tail(s), id)
  ELSE <<Head(s)>> \o Without(Tail(s), id)

\* clients.keys().next().value of a non-empty Map m
FirstKey(m) == m[1].id

RECURSIVE SeqOfSet(_)
\* some enumeration of a finite set (the fan-out order of a broadcast)
SeqOfSet(S) == IF S = {} THEN <<>> ELSE LET x == CHOOSE y \in S : TRUE IN <<x>> \o SeqOfSet(S \ {x})

\* socket.emit(..) and io.to(id).emit(..): one message if the socket id is
\* connected, none if the room is empty
EmitTo(id, conn, msg) == IF id \in conn THEN <<[to |-> id, msg |-> msg]>> ELSE <<>>

\* io.emit(..): one message to every connected socket
IoEmit(conn, msg) == LET order == SeqOfSet(conn) IN [i \in 1..Len(order) |-> [to |-> order[i], msg |-> msg]]

\* the capture messages of an emission, appended to each recipient's log
Delivered(log, out) ==
  [id \in Ids |-> log[id] \o SelectSeq([i \in 1..Len(out) |-> out[i]],
                                       LAMBDA m : m.to = id /\ m.msg.type = "capture")]

\* ------------------------------------------------------------ construction
\* lines 52-55: the module-level state when the process has started
Init ==
  /\ masterClient = Null
  /\ clients = <<>>
  /\ now = StartTime
  /\ sessionId = StartTime
  /\ captureCounter = CounterStart
  /\ sockets = {}
  /\ usedIds = {}
  /\ sent = <<>>
  /\ lastOp = [op |-> "start", id |-> Null]
  /\ captures = <<>>
  /\ captureLog = [id \in Ids |-> <<>>]
  /\ sessions = <<StartTime>>
  /\ storage = {}
  /\ run = 0
  /\ ticks = 0
  /\ lost = {}
  /\ channel = [id \in Ids |-> <<>>]
  /\ isFlashPhone = [id \in Ids |-> FALSE]
  /\ selected = [target |-> Null, times |-> 0]
  /\ page = "loading"
  /\ hasFlash = FALSE
  /\ audioContext = FALSE
  /\ mediaRecorder = NoRecorder
  /\ recordedChunks = <<>>
  /\ initSegment = NoSegment
  /\ isUploading = FALSE
  /\ tasks = {}
  /\ uploads = <<>>
  /\ clock = 0
  /\ arrivals = 0
  /\ markers = <<>>
  /\ bufferReady = FALSE
  /\ connected = FALSE
  /\ myRole = Null
  /\ phoneSessionId = StartTime
  /\ clientCount = 0
  /\ issued = [id \in Ids |-> <<>>]
  /\ seen = [id \in Ids |-> <<>>]
  /\ handled = {}
  /\ captureBtn = [disabled |-> TRUE]
  /\ requests = <<>>
  /\ bucket = {}
  /\ notified = {}
  /\ fired = {}

\* ----------------------------------------------------------------- pieces
\* (a connection handler that makes every new phone the master)
AssignMasterNewest(master, id) == id

\* if (!masterClient) masterClient = socket.id
AssignMaster(master, id) == IF master = Null THEN id ELSE master

\* the role named in the role message of a new connection
JoinRole(master) == IF master = Null THEN "master" ELSE "client"

\* (a handler without its master check)
IsMasterAlways(id, master) == TRUE

\* socket.id === masterClient
IsMaster(id, master) == id = master

\* (a disconnect handler that never promotes)
NextMasterStale(master, id, rest) == IF Len(rest) = 0 THEN Null ELSE master

\* (a disconnect handler that promotes the phone that connected last)
NextMasterLast(master, id, rest) ==
  IF id = master /\ Len(rest) > 0 THEN rest[Len(rest)].id
  ELSE IF Len(rest) = 0 THEN Null
  ELSE master

\* the disconnect handler's choice of masterClient; rest is the Map after
\* the delete
NextMaster(master, id, rest) ==
  IF id = master /\ Len(rest) > 0 THEN FirstKey(rest)
  ELSE IF Len(rest) = 0 THEN Null
  ELSE master

\* (a disconnect handler that starts a new session at every change of master)
NextSessionOnPromotion(session, rest, id, master, t) ==
  IF id = master \/ Len(rest) = 0 THEN t ELSE session

\* the disconnect handler's sessionId; t is the clock reading
NextSession(session, rest, id, master, t) ==
  IF id = master /\ Len(rest) > 0 THEN session
  ELSE IF Len(rest) = 0 THEN t
  ELSE session

\* (a disconnect handler that names a master whenever phones remain)
PromotionOutAlways(master, id, rest, conn, session) ==
  IF Len(rest) > 0
  THEN EmitTo(FirstKey(rest), conn, [type |-> "role", role |-> "master", sessionId |-> session])
  ELSE <<>>

\* the role message of a promotion, sent to the new master only
PromotionOut(master, id, rest, conn, session) ==
  IF id = master /\ Len(rest) > 0
  THEN EmitTo(FirstKey(rest), conn, [type |-> "role", role |-> "master", sessionId |-> session])
  ELSE <<>>

\* (a status broadcast that counts one phone too many)
StatusOutMiscounted(conn, size, session) ==
  IoEmit(conn, [type |-> "status", totalClients |-> size + 1, sessionId |-> session])

\* the status broadcast that ends the connection and disconnect handlers
StatusOut(conn, size, session) ==
  IoEmit(conn, [type |-> "status", totalClients |-> size, sessionId |-> session])

\* (a trigger that leaves the counter as it is)
NextCounterSame(c) == c

\* captureCounter++
NextCounter(c) == c + 1

\* (a trigger that tells one phone only)
CaptureOutOne(conn, t, session, folder) ==
  IoEmit({CHOOSE x \in conn : TRUE},
         [type |-> "capture", timestamp |-> t, sessionId |-> session, folderName |-> folder])

\* the broadcast of trigger-capture
CaptureOut(conn, t, session, folder) ==
  IoEmit(conn, [type |-> "capture", timestamp |-> t, sessionId |-> session, folderName |-> folder])

\* (a selection that switches no phone off)
SelectOutNoReset(keys, conn, selectedId) ==
  IF selectedId # Null /\ selectedId # None
  THEN EmitTo(selectedId, conn, [type |-> "set-flash-phone", isFlashPhone |-> TRUE])
  ELSE <<>>

\* the messages of select-flash-phone: false to every key of the Map, then
\* true to the selected id
SelectOut(keys, conn, selectedId) ==
  LET RECURSIVE Off(_)
      Off(ks) == IF Len(ks) = 0 THEN <<>>
                 ELSE EmitTo(Head(ks), conn, [type |-> "set-flash-phone", isFlashPhone |-> FALSE])
                        \o Off(Tail(ks))
  IN Off(keys) \o (IF selectedId # Null /\ selectedId # None
                   THEN EmitTo(selectedId, conn, [type |-> "set-flash-phone", isFlashPhone |-> TRUE])
                   ELSE <<>>)

\* (a list that names every phone of the Map)
FlashPhonesUnfiltered(m) ==
  [i \in 1..Len(m) |-> [id |-> m[i].id, role |-> m[i].role]]

\* the flash-phones-list of register-flash, over the Map m
FlashPhones(m) ==
  LET withFlash == SelectSeq(m, LAMBDA c : c.hasFlash)
  IN [i \in 1..Len(withFlash) |-> [id |-> withFlash[i].id, role |-> withFlash[i].role]]

\* the events a socket has a handler for (socket.on(..) inside io.on('connection'))
Handled == {"register-flash", "select-flash-phone", "trigger-capture", "video-uploaded", "disconnect"}

\* the events a phone may send that have no handler
Unhandled == {"request-synchronized-start"}

\* (a coordinator that answers the event with a go broadcast)
UnhandledOutGo(conn, ev) == IoEmit(conn, [type |-> "go"])

\* what the coordinator emits for an event without a handler: nothing
UnhandledOut(conn, ev) == <<>>

\* the id of the next connection: socket.io makes a fresh id for every
\* socket and the coordinator only compares ids for equality, so the ids are
\* named in the order in which they are handed out
FreshId(used) == SocketIds[Cardinality(used) + 1]

\* ----------------------------------------------------------------- actions
\* io.on('connection'), lines 61-87: a new socket with a fresh id connects
Connect(id) ==
  /\ Cardinality(usedIds) < MaxIds
  /\ id = FreshId(usedIds)
  /\ LET master == AssignMaster(masterClient, id)
         conn == sockets \cup {id}
         roster == Append(clients, [id |-> id,
                                    role |-> IF id = master THEN "master" ELSE "client",
                                    connected |-> now,
                                    hasFlash |-> FALSE])
     IN /\ masterClient' = master
        /\ clients' = roster
        /\ sockets' = conn
        /\ sent' = EmitTo(id, conn, [type |-> "role", role |-> JoinRole(masterClient),
                                     sessionId |-> sessionId])
                     \o StatusOut(conn, Len(roster), sessionId)
  /\ usedIds' = usedIds \cup {id}
  /\ lastOp' = [op |-> "connect", id |-> id]
  /\ captureLog' = Delivered(captureLog, sent')
  /\ UNCHANGED <<sessionId, captureCounter, now, captures, sessions, storage, run, ticks>>

\* socket.on('disconnect'), lines 168-189: the socket has left the namespace
Disconnect(id) ==
  /\ id \in sockets
  /\ LET rest == Without(clients, id)
         conn == sockets \ {id}
         session == NextSession(sessionId, rest, id, masterClient, now)
     IN /\ clients' = rest
        /\ sockets' = conn
        /\ masterClient' = NextMaster(masterClient, id, rest)
        /\ sessionId' = session
        /\ sessions' = IF Len(rest) = 0 THEN Append(sessions, session) ELSE sessions
        /\ sent' = PromotionOut(masterClient, id, rest, conn, sessionId)
                     \o StatusOut(conn, Len(rest), session)
  /\ lastOp' = [op |-> "disconnect", id |-> id]
  /\ captureLog' = Delivered(captureLog, sent')
  /\ UNCHANGED <<captureCounter, now, usedIds, captures, storage, run, ticks>>

\* socket.on('register-flash'), lines 90-106: the handler looks the socket up
\* in the Map and does nothing when it is not there, which is where a handler
\* that runs for a socket after its disconnect handler ends up
RegisterFlash(id, flash) ==
  /\ id \in usedIds
  /\ IF id \in KeySet
     THEN /\ clients' = [i \in 1..Len(clients) |->
                           IF clients[i].id = id THEN [clients[i] EXCEPT !.hasFlash = flash]
                           ELSE clients[i]]
          /\ sent' = IF masterClient # Null
                     THEN EmitTo(masterClient, sockets,
                                 [type |-> "flash-phones-list", phones |-> FlashPhones(clients')])
                     ELSE <<>>
     ELSE /\ clients' = clients
          /\ sent' = <<>>
  /\ lastOp' = [op |-> "register-flash", id |-> id, hasFlash |-> flash]
  /\ captureLog' = Delivered(captureLog, sent')
  /\ UNCHANGED <<masterClient, sessionId, captureCounter, now, sockets, usedIds,
                 captures, sessions, storage, run, ticks>>

\* socket.on('select-flash-phone'), lines 109-124
SelectFlashPhone(id, phoneId) ==
  /\ id \in sockets
  /\ sent' = IF IsMaster(id, masterClient) THEN SelectOut(Keys, sockets, phoneId) ELSE <<>>
  /\ lastOp' = [op |-> "select-flash-phone", id |-> id]
  /\ captureLog' = Delivered(captureLog, sent')
  /\ UNCHANGED <<masterClient, clients, sessionId, captureCounter, now, sockets, usedIds,
                 captures, sessions, storage, run, ticks>>

\* socket.on('trigger-capture'), lines 127-159
TriggerCapture(id) ==
  /\ id \in sockets
  /\ IF IsMaster(id, masterClient)
     THEN LET captureTime == now
              folderName == FolderName(captureCounter, captureTime)
          IN /\ captureCounter' = NextCounter(captureCounter)
             /\ sent' = CaptureOut(sockets, captureTime, sessionId, folderName)
             /\ captures' = Append(captures, [timestamp |-> captureTime,
                                              sessionId |-> sessionId,
                                              folderName |-> folderName,
                                              counter |-> captureCounter,
                                              roster |-> KeySet,
                                              resets |-> Len(sessions) - 1,
                                              run |-> run])
     ELSE /\ captureCounter' = captureCounter
          /\ sent' = <<>>
          /\ captures' = captures
  /\ lastOp' = [op |-> "trigger-capture", id |-> id]
  /\ captureLog' = Delivered(captureLog, sent')
  /\ UNCHANGED <<masterClient, clients, sessionId, now, sockets, usedIds,
                 sessions, storage, run, ticks>>

\* (a handler that answers the notification with a status broadcast)
VideoUploadedAnswered(id) ==
  /\ id \in sockets
  /\ sent' = StatusOut(sockets, Len(clients), sessionId)
  /\ lastOp' = [op |-> "video-uploaded", id |-> id]
  /\ UNCHANGED <<masterClient, clients, sessionId, captureCounter, now, sockets, usedIds,
                 captures, captureLog, sessions, storage, run, ticks>>

\* socket.on('video-uploaded'), lines 162-165: two log lines
VideoUploaded(id) ==
  /\ id \in sockets
  /\ sent' = <<>>
  /\ lastOp' = [op |-> "video-uploaded", id |-> id]
  /\ UNCHANGED <<masterClient, clients, sessionId, captureCounter, now, sockets, usedIds,
                 captures, captureLog, sessions, storage, run, ticks>>

\* an event for which io.on('connection') registers no handler is dropped
UnhandledEvent(id, ev) ==
  /\ id \in sockets
  /\ ev \in Unhandled \ Handled
  /\ sent' = UnhandledOut(sockets, ev)
  /\ lastOp' = [op |-> ev, id |-> id]
  /\ captureLog' = Delivered(captureLog, sent')
  /\ UNCHANGED <<masterClient, clients, sessionId, captureCounter, now, sockets, usedIds,
                 captures, sessions, storage, run, ticks>>

\* the reading one millisecond after t
Advance(t) == IF t.ms = 999 THEN [s |-> t.s + 1, ms |-> 0] ELSE [t EXCEPT !.ms = @ + 1]

\* the clock advances by one millisecond
Tick ==
  /\ now' = Advance(now)
  /\ ticks' = ticks + 1
  /\ sent' = <<>>
  /\ lastOp' = [op |-> "tick", id |-> Null]
  /\ UNCHANGED <<masterClient, clients, sessionId, captureCounter, sockets, usedIds,
                 captures, captureLog, sessions, storage, run>>

\* app.post('/upload'), lines 193-241: a phone that received a capture
\* message stores its clip under the folder name of that message
Upload(id) ==
  /\ \E k \in 1..Len(captureLog[id]) :
       storage' = storage \cup {captureLog[id][k].msg.folderName}
  /\ sent' = <<>>
  /\ lastOp' = [op |-> "upload", id |-> id]
  /\ UNCHANGED <<masterClient, clients, sessionId, captureCounter, now, sockets, usedIds,
                 captures, captureLog, sessions, run, ticks>>

\* (an upload endpoint that tells every phone of the failure)
UploadFailedTold(id, stage) ==
  /\ \E k \in 1..Len(captureLog[id]) :
       storage' = IF stage = "metadata"
                  THEN storage \cup {captureLog[id][k].msg.folderName}
                  ELSE storage
  /\ sent' = IoEmit(sockets, [type |-> "upload-failed"])
  /\ lastOp' = [op |-> "upload-failed", id |-> id]
  /\ UNCHANGED <<masterClient, clients, sessionId, captureCounter, now, sockets, usedIds,
                 captures, captureLog, sessions, run, ticks>>

\* app.post('/upload'), lines 193-241, when a send to the bucket throws: the
\* catch block answers 500. If the video was written before the metadata
\* write failed, the folder holds the video
UploadFailed(id, stage) ==
  /\ \E k \in 1..Len(captureLog[id]) :
       storage' = IF stage = "metadata"
                  THEN storage \cup {captureLog[id][k].msg.folderName}
                  ELSE storage
  /\ sent' = <<>>
  /\ lastOp' = [op |-> "upload-failed", id |-> id]
  /\ UNCHANGED <<masterClient, clients, sessionId, captureCounter, now, sockets, usedIds,
                 captures, captureLog, sessions, run, ticks>>

\* the process is stopped and started again, which takes time: lines 52-55
\* run anew, every socket is gone and no disconnect handler has run
Restart ==
  /\ now' = Advance(now)
  /\ masterClient' = Null
  /\ clients' = <<>>
  /\ sessionId' = now'
  /\ captureCounter' = CounterStart
  /\ sockets' = {}
  /\ sent' = <<>>
  /\ lastOp' = [op |-> "start", id |-> Null]
  /\ sessions' = <<now'>>
  /\ run' = run + 1
  /\ UNCHANGED <<usedIds, captures, captureLog, storage, ticks>>

\* ------------------------------------------------------ phones and channels
\* the messages whose handlers on the phone are followed
Followed == {"set-flash-phone"}

\* the messages whose order of arrival at a phone is followed
Ordered == {"capture", "role", "status"}

\* the transport of socket.io: the messages of the given types emitted to a
\* socket join the end of its channel in emission order
PostedOf(types, ch, out) ==
  [id \in Ids |->
     LET mine == SelectSeq(out, LAMBDA m : m.to = id /\ m.msg.type \in types)
     IN ch[id] \o [i \in 1..Len(mine) |-> mine[i].msg]]

\* the channels after an emission, as far as the flash handlers are concerned
Posted(ch, out) == PostedOf(Followed, ch, out)

\* app.js socket.on('set-flash-phone'), lines 315-325: the phone's flag after
\* the message data
SetFlashPhone(flag, data) == data.isFlashPhone

\* the selection history after a select-flash-phone of socket id for phoneId
Reselected(sel, id, phoneId) ==
  IF ~IsMaster(id, masterClient) THEN sel
  ELSE IF sel.target = phoneId /\ sel.times > 0 THEN [sel EXCEPT !.times = @ + 1]
  ELSE [target |-> phoneId, times |-> 1]

\* the phone with socket id takes the next message off its channel and runs
\* the handler registered for it (app.js lines 257-325); of the phone's state
\* only isFlashPhone is followed here
Deliver(id) ==
  /\ id \in sockets
  /\ channel[id] # <<>>
  /\ LET data == Head(channel[id])
     IN isFlashPhone' = [isFlashPhone EXCEPT ![id] =
                           IF data.type = "set-flash-phone" THEN SetFlashPhone(@, data) ELSE @]
  /\ channel' = [channel EXCEPT ![id] = Tail(@)]
  /\ UNCHANGED <<serverVars, lost, selected, agentVars, orderVars, storeVars>>

\* (an event loop that runs the handler of the newest arrival first)
ObserveNewest(id) ==
  /\ id \in sockets
  /\ channel[id] # <<>>
  /\ LET data == channel[id][Len(channel[id])]
     IN seen' = [seen EXCEPT ![id] = Append(@, data)]
  /\ channel' = [channel EXCEPT ![id] = SubSeq(@, 1, Len(@) - 1)]
  /\ UNCHANGED <<serverVars, lost, isFlashPhone, selected, agentVars, issued, handled, storeVars>>

\* the phone with socket id takes the next message off its channel and runs
\* the handler registered for it: socket.on('role'), socket.on('status'),
\* socket.on('capture'), app.js lines 257-312. The event loop runs one handler
\* per arrival, in arrival order; of the phone's state only the order in
\* which the handlers were entered is followed here
Observe(id) ==
  /\ id \in sockets
  /\ channel[id] # <<>>
  /\ LET data == Head(channel[id])
     IN seen' = [seen EXCEPT ![id] = Append(@, data)]
  /\ channel' = [channel EXCEPT ![id] = Tail(@)]
  /\ UNCHANGED <<serverVars, lost, isFlashPhone, selected, agentVars, issued, handled, storeVars>>

\* the messages whose handlers decide which torches fire
Lit == {"set-flash-phone", "capture"}

\* the phone with socket id takes the next message off its channel and runs
\* the handler registered for it: socket.on('set-flash-phone'), app.js lines
\* 315-325, assigns the flag; socket.on('capture'), lines 292-304, fires the
\* torch when isFlashPhone && hasFlash. The phones of this run have a torch
Handle(id) ==
  /\ id \in sockets
  /\ channel[id] # <<>>
  /\ LET data == Head(channel[id])
     IN /\ isFlashPhone' = [isFlashPhone EXCEPT ![id] =
                              IF data.type = "set-flash-phone" THEN SetFlashPhone(@, data) ELSE @]
        /\ fired' = IF data.type = "capture" /\ isFlashPhone[id]
                    THEN fired \cup {[folder |-> data.folderName, id |-> id]}
                    ELSE fired
  /\ channel' = [channel EXCEPT ![id] = Tail(@)]
  /\ UNCHANGED <<serverVars, lost, selected, agentVars, orderVars, requests, bucket, notified>>

\* the page whose socket old has closed connects again (io(SERVER_URL), app.js
\* line 243, reconnects by itself; the disconnect handler, lines 328-331,
\* only logs): the coordinator sees a new socket with a fresh id, and the
\* page's variables are what they were. A page whose flag is false connects
\* as a new page does, so only the page whose flag is true is told apart
Reconnect(old, id) ==
  /\ old \in usedIds \ sockets
  /\ isFlashPhone[old]
  /\ Connect(id)
  /\ isFlashPhone' = [isFlashPhone EXCEPT ![id] = isFlashPhone[old], ![old] = FALSE]
  /\ channel' = PostedOf(Lit, channel, sent')
  /\ UNCHANGED <<lost, selected, agentVars, orderVars, storeVars>>

\* ------------------------------------------------------ the followed phone
\* the socket id of the phone whose agent is followed step by step
Me == SocketIds[1]

\* Math.ceil(BUFFER_DURATION / 1000) of updateBufferCountdown
SecondsNeeded == (BUFFER_DURATION + 999) \div 1000

\* new MediaRecorder(..) and start(CHUNK_DURATION) at time t: the recorder
\* that follows old
NewRecorder(old, t) ==
  [n |-> old.n + 1, state |-> "recording", since |-> t, due |-> t + CHUNK_DURATION,
   heard |-> {}]

\* (a stop() that leaves the recorder recording)
StoppedStillRecording(r) == r

\* the recorder r after mediaRecorder.stop()
Stopped(r) == [r EXCEPT !.state = "inactive"]

\* the data of a dataavailable event of recorder r at time t: what r recorded
\* since its last event, with the tones played in that interval
Recorded(r, t) == [rec |-> r.n, from |-> r.since, to |-> t, heard |-> r.heard]

\* ondataavailable: initSegment after an event with the given data
InitAfter(init, data) == IF data.to > data.from /\ init = NoSegment THEN data ELSE init

\* (a buffer that is never trimmed)
ChunksAfterUntrimmed(chunks, init, data, t) ==
  IF data.to > data.from /\ init # NoSegment
  THEN Append(chunks, [data |-> data, timestamp |-> t])
  ELSE chunks

\* ondataavailable: recordedChunks after an event with the given data at time t
ChunksAfter(chunks, init, data, t) ==
  IF data.to > data.from /\ init # NoSegment
  THEN SelectSeq(Append(chunks, [data |-> data, timestamp |-> t]),
                 LAMBDA chunk : chunk.timestamp > t - BUFFER_DURATION)
  ELSE chunks

\* (a guard that lets every save through)
BusyNever(flag) == FALSE

\* if (isUploading) return
Busy(flag) == flag

\* allChunks of saveVideo
AllChunks(init, chunks) ==
  (IF init # NoSegment THEN <<init>> ELSE <<>>) \o [i \in 1..Len(chunks) |-> chunks[i].data]

\* the capture button after the role handler, lines 264-267: the master's
\* button is enabled
ButtonAfterRole(btn, role) == IF role = "master" THEN [btn EXCEPT !.disabled = FALSE] ELSE btn

\* the capture button after startBufferCountdown, lines 567-573
ButtonAfterStart(btn, role) == IF role = "master" THEN [btn EXCEPT !.disabled = TRUE] ELSE btn

\* the capture button after updateBufferCountdown, lines 575-595
ButtonAfterCountdown(btn, role, chunks) ==
  IF role # "master" THEN btn
  ELSE [btn EXCEPT !.disabled = Len(chunks) < SecondsNeeded]

\* the capture button after ondataavailable with the given data: the
\* countdown is updated when a chunk has been pushed
ButtonAfterData(btn, role, init, data, chunks) ==
  IF data.to > data.from /\ init # NoSegment THEN ButtonAfterCountdown(btn, role, chunks)
  ELSE btn

\* the click handler of the capture button, lines 335-340, on a button that
\* takes clicks: trigger-capture is sent
CanTrigger == myRole = "master" /\ ~isUploading /\ ~captureBtn.disabled

\* a pending timer, event or fetch of the phone
Task(cap, pc, at) == [cap |-> cap, pc |-> pc, at |-> at, data |-> NoSegment, up |-> 0]

\* the tasks that run at a set time
Timed == {"flash", "wait", "stopped", "data"}

\* markers with the fate of the handler of capture message k set to f
Fated(m, k, f) == [m EXCEPT ![k].fate = f]

\* init(), lines 81-112: with a camera the phone starts recording and makes
\* its audio context; without one it has neither; it connects in both cases
PageInit(camera, torch) ==
  /\ page = "loading"
  /\ page' = "running"
  /\ IF camera
     THEN /\ hasFlash' = torch
          /\ mediaRecorder' = NewRecorder(mediaRecorder, clock)
          /\ audioContext' = TRUE
     ELSE UNCHANGED <<hasFlash, mediaRecorder, audioContext>>
  /\ connected' = TRUE
  /\ UNCHANGED <<serverVars, orderVars, storeVars, myRole, phoneSessionId, clientCount, captureBtn,
                 lost, channel, isFlashPhone, selected, recordedChunks,
                 initSegment, isUploading, tasks, uploads, clock, arrivals, markers,
                 bufferReady>>

\* the recorder's timeslice has elapsed: ondataavailable, lines 180-204
DataAvailable ==
  /\ mediaRecorder.state = "recording"
  /\ mediaRecorder.due = clock
  /\ LET data == Recorded(mediaRecorder, clock)
     IN /\ initSegment' = InitAfter(initSegment, data)
        /\ recordedChunks' = ChunksAfter(recordedChunks, initSegment, data, clock)
  /\ captureBtn' = ButtonAfterData(captureBtn, myRole, initSegment,
                                    Recorded(mediaRecorder, clock), recordedChunks')
  /\ bufferReady' = (bufferReady \/ Len(recordedChunks') >= SecondsNeeded)
  /\ mediaRecorder' = [mediaRecorder EXCEPT !.since = clock, !.due = clock + CHUNK_DURATION,
                                            !.heard = {}]
  /\ UNCHANGED <<serverVars, orderVars, storeVars, connected, myRole, phoneSessionId, clientCount, lost, channel, isFlashPhone, selected,
                 page, hasFlash,
                 audioContext, isUploading, tasks, uploads, clock, arrivals, markers>>

\* socket.on('capture'), lines 292-304: the tone is played at once (and
\* throws without an audio context), then the handler waits for the torch
\* pulse or for the second after the tone
Capture ==
  /\ page = "running"
  /\ connected
  /\ arrivals' = arrivals + 1
  /\ LET k == arrivals + 1
         toned == audioContext /\ mediaRecorder.state = "recording"
     IN /\ markers' = Append(markers, [at |-> clock,
                                       rec |-> IF toned THEN mediaRecorder.n ELSE 0,
                                       uploading |-> \E t \in tasks : t.pc = "uploading",
                                       saving |-> isUploading,
                                       ready |-> bufferReady,
                                       dropped |-> FALSE,
                                       fate |-> IF audioContext THEN "waiting" ELSE "threw"])
        /\ mediaRecorder' = IF toned THEN [mediaRecorder EXCEPT !.heard = @ \cup {k}]
                            ELSE mediaRecorder
        /\ tasks' = IF ~audioContext THEN tasks
                    ELSE tasks \cup {IF isFlashPhone[Me] /\ hasFlash
                                     THEN Task(k, "flash", clock + FlashPulse)
                                     ELSE Task(k, "wait", clock + CaptureWait)}
  /\ UNCHANGED <<serverVars, orderVars, storeVars, inboxVars, lost, channel, isFlashPhone, selected,
                 page, hasFlash,
                 audioContext, recordedChunks, initSegment, isUploading, uploads, clock,
                 bufferReady>>

\* triggerFlash() has returned, lines 302-308: the wait after the tone starts
FlashDone(t) ==
  /\ t \in tasks
  /\ t.pc = "flash"
  /\ t.at = clock
  /\ tasks' = (tasks \ {t}) \cup {Task(t.cap, "wait", clock + CaptureWait)}
  /\ UNCHANGED <<serverVars, orderVars, storeVars, inboxVars, lost, channel, isFlashPhone, selected,
                 page, hasFlash,
                 audioContext, mediaRecorder, recordedChunks, initSegment, isUploading,
                 uploads, clock, arrivals, markers, bufferReady>>

\* the wait after the tone is over: saveVideo up to its first await, lines
\* 350-367, or all of it when it returns at the guard or stop() throws (then
\* the catch block clears the buffer and starts a recorder if there is a
\* stream, and finally clears isUploading before any other task runs)
SaveVideo(t) ==
  /\ t \in tasks
  /\ t.pc = "wait"
  /\ t.at = clock
  /\ IF Busy(isUploading)
     THEN /\ tasks' = tasks \ {t}
          /\ markers' = Fated(markers, t.cap, "rejected")
          /\ UNCHANGED <<isUploading, mediaRecorder, recordedChunks, initSegment, captureBtn>>
     ELSE IF mediaRecorder.state # "recording"
     THEN /\ tasks' = tasks \ {t}
          /\ markers' = Fated(markers, t.cap, "threw")
          /\ isUploading' = FALSE
          /\ recordedChunks' = <<>>
          /\ initSegment' = NoSegment
          /\ mediaRecorder' = IF mediaRecorder = NoRecorder THEN NoRecorder
                              ELSE NewRecorder(mediaRecorder, clock)
          /\ captureBtn' = IF mediaRecorder = NoRecorder THEN captureBtn
                           ELSE ButtonAfterStart(captureBtn, myRole)
     ELSE /\ isUploading' = TRUE
          /\ mediaRecorder' = Stopped(mediaRecorder)
          /\ tasks' = (tasks \ {t})
                        \cup {Task(t.cap, "stopped", clock + StopWait),
                              [Task(0, "data", clock) EXCEPT
                                 !.data = Recorded(mediaRecorder, clock)]}
          /\ markers' = Fated(markers, t.cap, "saving")
          /\ UNCHANGED <<recordedChunks, initSegment, captureBtn>>
  /\ UNCHANGED <<serverVars, orderVars, storeVars, connected, myRole, phoneSessionId, clientCount, lost, channel, isFlashPhone, selected,
                 page, hasFlash,
                 audioContext, uploads, clock, arrivals, bufferReady>>

\* the dataavailable event that stop() queues for what the recorder held
FinalData(t) ==
  /\ t \in tasks
  /\ t.pc = "data"
  /\ initSegment' = InitAfter(initSegment, t.data)
  /\ recordedChunks' = ChunksAfter(recordedChunks, initSegment, t.data, clock)
  /\ captureBtn' = ButtonAfterData(captureBtn, myRole, initSegment, t.data, recordedChunks')
  /\ bufferReady' = (bufferReady \/ Len(recordedChunks') >= SecondsNeeded)
  /\ tasks' = tasks \ {t}
  /\ UNCHANGED <<serverVars, orderVars, storeVars, connected, myRole, phoneSessionId, clientCount, lost, channel, isFlashPhone, selected,
                 page, hasFlash,
                 audioContext, mediaRecorder, isUploading, uploads, clock, arrivals,
                 markers>>

\* the dataavailable event that stop() queued has not been fired when the
\* timers of the present time have run: the recorder hands its last data over
\* when it has finished it, and saveVideo waits 500 ms for that, lines 364-367,
\* not for the event
Late(t) ==
  /\ t \in tasks
  /\ t.pc = "data"
  /\ t.at = clock
  /\ tasks' = (tasks \ {t}) \cup {[t EXCEPT !.at = clock + Step]}
  /\ UNCHANGED <<serverVars, orderVars, storeVars, inboxVars, lost, channel, isFlashPhone, selected,
                 page, hasFlash,
                 audioContext, mediaRecorder, recordedChunks, initSegment, isUploading,
                 uploads, clock, arrivals, markers, bufferReady>>

\* saveVideo after the wait that follows stop(), lines 369-424: the clip is
\* put together and handed to uploadToS3 (the header check reads the blob
\* that is already made)
Finalize(t) ==
  /\ t \in tasks
  /\ t.pc = "stopped"
  /\ t.at = clock
  /\ uploads' = Append(uploads, [cap |-> t.cap,
                                 clip |-> AllChunks(initSegment, recordedChunks),
                                 at |-> clock,
                                 outcome |-> "pending"])
  /\ tasks' = (tasks \ {t}) \cup {[Task(t.cap, "uploading", clock) EXCEPT !.up = Len(uploads')]}
  /\ UNCHANGED <<serverVars, orderVars, storeVars, inboxVars, lost, channel, isFlashPhone, selected,
                 page, hasFlash,
                 audioContext, mediaRecorder, recordedChunks, initSegment, isUploading,
                 clock, arrivals, markers, bufferReady>>

\* (a saveVideo without its finally block)
UploadDoneFlagKept(t, ok) ==
  /\ t \in tasks
  /\ t.pc = "uploading"
  /\ uploads' = [uploads EXCEPT ![t.up].outcome = IF ok THEN "ok" ELSE "failed"]
  /\ recordedChunks' = <<>>
  /\ initSegment' = NoSegment
  /\ mediaRecorder' = NewRecorder(mediaRecorder, clock)
  /\ isUploading' = isUploading
  /\ captureBtn' = ButtonAfterStart(captureBtn, myRole)
  /\ tasks' = tasks \ {t}
  /\ markers' = Fated(markers, t.cap, "done")
  /\ UNCHANGED <<serverVars, orderVars, storeVars, connected, myRole, phoneSessionId, clientCount, lost, channel, isFlashPhone, selected,
                 page, hasFlash,
                 audioContext, clock, arrivals, bufferReady>>

\* (a catch block that gives up recording after a failed upload)
UploadDoneNoRestart(t, ok) ==
  /\ t \in tasks
  /\ t.pc = "uploading"
  /\ uploads' = [uploads EXCEPT ![t.up].outcome = IF ok THEN "ok" ELSE "failed"]
  /\ recordedChunks' = <<>>
  /\ initSegment' = NoSegment
  /\ mediaRecorder' = IF ok THEN NewRecorder(mediaRecorder, clock) ELSE mediaRecorder
  /\ isUploading' = FALSE
  /\ captureBtn' = ButtonAfterStart(captureBtn, myRole)
  /\ tasks' = tasks \ {t}
  /\ markers' = Fated(markers, t.cap, "done")
  /\ UNCHANGED <<serverVars, orderVars, storeVars, connected, myRole, phoneSessionId, clientCount, lost, channel, isFlashPhone, selected,
                 page, hasFlash,
                 audioContext, clock, arrivals, bufferReady>>

\* the fetch of uploadToS3 has settled, lines 424-449: on success and on
\* failure alike the buffer is cleared, a new recorder is started and
\* isUploading is cleared
UploadDone(t, ok) ==
  /\ t \in tasks
  /\ t.pc = "uploading"
  /\ uploads' = [uploads EXCEPT ![t.up].outcome = IF ok THEN "ok" ELSE "failed"]
  /\ recordedChunks' = <<>>
  /\ initSegment' = NoSegment
  /\ mediaRecorder' = NewRecorder(mediaRecorder, clock)
  /\ isUploading' = FALSE
  /\ captureBtn' = ButtonAfterStart(captureBtn, myRole)
  /\ tasks' = tasks \ {t}
  /\ markers' = Fated(markers, t.cap, "done")
  /\ UNCHANGED <<serverVars, orderVars, storeVars, connected, myRole, phoneSessionId, clientCount, lost, channel, isFlashPhone, selected,
                 page, hasFlash,
                 audioContext, clock, arrivals, bufferReady>>

\* socket.on('set-flash-phone') on the followed phone, lines 315-325
SetFlash(value) ==
  /\ page = "running"
  /\ isFlashPhone' = [isFlashPhone EXCEPT ![Me] =
                        SetFlashPhone(@, [type |-> "set-flash-phone", isFlashPhone |-> value])]
  /\ UNCHANGED <<serverVars, lost, channel, selected, agentVars, issued, seen, storeVars>>

\* (a role handler that has to wait until the capture handler has returned)
RoleDeferred(data) ==
  /\ page = "running"
  /\ connected
  /\ tasks = {}
  /\ myRole' = data.role
  /\ phoneSessionId' = data.sessionId
  /\ captureBtn' = ButtonAfterRole(captureBtn, data.role)
  /\ UNCHANGED <<serverVars, lost, channel, isFlashPhone, selected, issued, seen, storeVars,
                 page, hasFlash, audioContext, mediaRecorder, recordedChunks, initSegment,
                 isUploading, tasks, uploads, clock, arrivals, markers, bufferReady,
                 connected, clientCount>>

\* socket.on('role'), lines 257-276
Role(data) ==
  /\ page = "running"
  /\ connected
  /\ myRole' = data.role
  /\ phoneSessionId' = data.sessionId
  /\ captureBtn' = ButtonAfterRole(captureBtn, data.role)
  /\ UNCHANGED <<serverVars, lost, channel, isFlashPhone, selected, issued, seen, storeVars,
                 page, hasFlash, audioContext, mediaRecorder, recordedChunks, initSegment,
                 isUploading, tasks, uploads, clock, arrivals, markers, bufferReady,
                 connected, clientCount>>

\* socket.on('status'), lines 287-289: the status line shows the count
Status(data) ==
  /\ page = "running"
  /\ connected
  /\ clientCount' = data.totalClients
  /\ UNCHANGED <<serverVars, lost, channel, isFlashPhone, selected, issued, seen, storeVars,
                 page, hasFlash, audioContext, mediaRecorder, recordedChunks, initSegment,
                 isUploading, tasks, uploads, clock, arrivals, markers, bufferReady,
                 connected, myRole, phoneSessionId, captureBtn>>

\* the log of handled messages after the handler for one of the given type
\* has run
Logged(log, type) ==
  IF isUploading \/ \E t \in tasks : t.pc \in {"flash", "wait"} THEN log \cup {type} ELSE log

\* the captures whose clip has not been handed to uploadToS3 yet
Pending(ts) == {t.cap : t \in {x \in ts : x.pc \in {"flash", "wait", "stopped"}}}

\* the markers after a disconnect: those of pending captures are flagged
Dropped(m, ts) == [k \in 1..Len(m) |-> IF k \in Pending(ts) THEN [m[k] EXCEPT !.dropped = TRUE]
                                        ELSE m[k]]

\* (a disconnect handler that cancels the pending save)
PhoneDisconnectCancels ==
  /\ page = "running"
  /\ connected
  /\ connected' = FALSE
  /\ markers' = Dropped(markers, tasks)
  /\ tasks' = {t \in tasks : t.cap \notin Pending(tasks)}
  /\ UNCHANGED <<serverVars, orderVars, storeVars, lost, channel, isFlashPhone, selected,
                 page, hasFlash, audioContext, mediaRecorder, recordedChunks, initSegment,
                 isUploading, uploads, clock, arrivals, bufferReady,
                 myRole, phoneSessionId, clientCount, captureBtn>>

\* socket.on('disconnect'), lines 328-331: a log line and the status line
PhoneDisconnect ==
  /\ page = "running"
  /\ connected
  /\ connected' = FALSE
  /\ markers' = Dropped(markers, tasks)
  /\ UNCHANGED <<serverVars, orderVars, storeVars, lost, channel, isFlashPhone, selected,
                 page, hasFlash, audioContext, mediaRecorder, recordedChunks, initSegment,
                 isUploading, tasks, uploads, clock, arrivals, bufferReady,
                 myRole, phoneSessionId, clientCount, captureBtn>>

\* socket.on('connect'), lines 247-254, after socket.io has reconnected
PhoneReconnect ==
  /\ page = "running"
  /\ ~connected
  /\ connected' = TRUE
  /\ UNCHANGED <<serverVars, orderVars, storeVars, lost, channel, isFlashPhone, selected,
                 page, hasFlash, audioContext, mediaRecorder, recordedChunks, initSegment,
                 isUploading, tasks, uploads, clock, arrivals, markers, bufferReady,
                 myRole, phoneSessionId, clientCount, captureBtn>>

\* half a second passes on the phone once every task set for the present
\* time has run
Pass ==
  /\ \A t \in tasks : t.pc \in Timed => t.at > clock
  /\ mediaRecorder.state = "recording" => mediaRecorder.due > clock
  /\ clock' = clock + Step
  /\ UNCHANGED <<serverVars, orderVars, storeVars, inboxVars, lost, channel, isFlashPhone, selected,
                 page, hasFlash,
                 audioContext, mediaRecorder, recordedChunks, initSegment, isUploading,
                 tasks, uploads, arrivals, markers, bufferReady>>

\* (a coordinator that notices the closed channel and runs the disconnect
\* handler for it)
ChannelLostNoticed(id) ==
  /\ id \in sockets \ lost
  /\ lost' = lost \cup {id}
  /\ Disconnect(id)
  /\ UNCHANGED <<channel, isFlashPhone, selected, agentVars, orderVars, storeVars>>

\* the channel of a connected phone closes and no disconnect event reaches
\* the handlers of io.on('connection'): no handler runs, and server.js starts
\* no timer (no setInterval, no setTimeout) that would look at the roster
ChannelLost(id) ==
  /\ id \in sockets \ lost
  /\ lost' = lost \cup {id}
  /\ UNCHANGED <<serverVars, channel, isFlashPhone, selected, agentVars, orderVars, storeVars>>

\* ------------------------------------------------------- clips in the bucket
\* socket.id of a socket.io client that is not connected
Undefined == "undefined"

\* the text of a socket id, or of undefined, inside a template string
IdString(id) ==
  IF id = Undefined THEN <<117, 110, 100, 101, 102, 105, 110, 101, 100>>
  ELSE <<115, Ch0 + (CHOOSE i \in 1..Len(SocketIds) : SocketIds[i] = id)>>

\* app.js line 407: `capture_${sessionId}_${socket.id}_${timestamp}.webm`
FileName(session, id, timestamp) ==
  <<99, 97, 112, 116, 117, 114, 101, ChUnderscore>> \o TimeString(session)
    \o <<ChUnderscore>> \o IdString(id)
    \o <<ChUnderscore>> \o TimeString(timestamp) \o <<46, 119, 101, 98, 109>>

\* server.js line 203: metadata.folderName || metadata.sessionId
UploadFolder(metadata) ==
  IF metadata.folderName # <<>> THEN metadata.folderName ELSE TimeString(metadata.sessionId)

\* server.js line 204: `captures/${folderName}/${metadata.filename}`
VideoKey(metadata) ==
  <<99, 97, 112, 116, 117, 114, 101, 115, 47>> \o UploadFolder(metadata)
    \o <<47>> \o metadata.filename

\* server.js line 216: `captures/${folderName}/${metadata.filename}.json`
MetadataKey(metadata) == VideoKey(metadata) \o <<46, 106, 115, 111, 110>>

\* saveVideo lines 406-424 and uploadToS3 up to the fetch, on the phone that
\* holds the page of socket id and saves for the k-th capture message it
\* received: the file is named with socket.id as it is then, which is
\* undefined when the socket has disconnected since the message arrived
\* (C22), and the request is posted. A phone saves once per capture message
PostUpload(id, k) ==
  /\ id \in usedIds
  /\ k \in 1..Len(captureLog[id])
  /\ \A r \in 1..Len(requests) : ~(requests[r].phone = id /\ requests[r].cap = k)
  /\ LET captureData == captureLog[id][k].msg
         deviceId == IF id \in sockets THEN id ELSE Undefined
         filename == FileName(captureData.sessionId, deviceId, captureData.timestamp)
     IN requests' = Append(requests,
                           [phone |-> id, cap |-> k,
                            metadata |-> [filename |-> filename,
                                          folderName |-> captureData.folderName,
                                          sessionId |-> captureData.sessionId,
                                          deviceId |-> deviceId,
                                          captureTimestamp |-> captureData.timestamp],
                            pc |-> "posted"])
  /\ UNCHANGED <<serverVars, lost, channel, isFlashPhone, selected, agentVars, orderVars,
                 bucket, notified, fired>>

\* (an endpoint that goes on to the metadata when the clip was not written)
PutVideoUnchecked(r, ok) ==
  /\ r \in 1..Len(requests)
  /\ requests[r].pc = "posted"
  /\ bucket' = IF ok THEN bucket \cup {VideoKey(requests[r].metadata)} ELSE bucket
  /\ requests' = [requests EXCEPT ![r].pc = "video"]
  /\ UNCHANGED <<serverVars, lost, channel, isFlashPhone, selected, agentVars, orderVars,
                 notified, fired>>

\* app.post('/upload'), lines 194-212: the clip is sent to the bucket; when
\* the send throws the catch block answers 500 (lines 234-239)
PutVideo(r, ok) ==
  /\ r \in 1..Len(requests)
  /\ requests[r].pc = "posted"
  /\ bucket' = IF ok THEN bucket \cup {VideoKey(requests[r].metadata)} ELSE bucket
  /\ requests' = [requests EXCEPT ![r].pc = IF ok THEN "video" ELSE "answered 500"]
  /\ UNCHANGED <<serverVars, lost, channel, isFlashPhone, selected, agentVars, orderVars,
                 notified, fired>>

\* app.post('/upload'), lines 215-232: after the clip the metadata is sent to
\* the bucket and the request is answered with success; when the send
\* throws the catch block answers 500
PutMetadata(r, ok) ==
  /\ r \in 1..Len(requests)
  /\ requests[r].pc = "video"
  /\ bucket' = IF ok THEN bucket \cup {MetadataKey(requests[r].metadata)} ELSE bucket
  /\ requests' = [requests EXCEPT ![r].pc = IF ok THEN "answered ok" ELSE "answered 500"]
  /\ UNCHANGED <<serverVars, lost, channel, isFlashPhone, selected, agentVars, orderVars,
                 notified, fired>>

\* (an uploadToS3 that does not look at response.ok)
ResponseUnchecked(r) ==
  /\ r \in 1..Len(requests)
  /\ requests[r].pc \in {"answered ok", "answered 500"}
  /\ notified' = notified \cup {r}
  /\ requests' = [requests EXCEPT ![r].pc = "settled"]
  /\ UNCHANGED <<serverVars, lost, channel, isFlashPhone, selected, agentVars, orderVars,
                 bucket, fired>>

\* uploadToS3 after the fetch, lines 471-485: a response that is not ok makes
\* it throw; after an ok response video-uploaded is sent
Response(r) ==
  /\ r \in 1..Len(requests)
  /\ requests[r].pc \in {"answered ok", "answered 500"}
  /\ notified' = IF requests[r].pc = "answered ok" THEN notified \cup {r} ELSE notified
  /\ requests' = [requests EXCEPT ![r].pc = IF @ = "answered ok" THEN "settled" ELSE "thrown"]
  /\ UNCHANGED <<serverVars, lost, channel, isFlashPhone, selected, agentVars, orderVars,
                 bucket, fired>>

\* --------------------------------------------------------- specifications
\* a step of the coordinator that no phone has seen yet
Quiet == UNCHANGED phoneVars

\* one run of the coordinator: phones connect, disconnect and trigger
\* captures while the clock advances
Next ==
  \/ \E id \in Ids : Connect(id) /\ Quiet
  \/ \E id \in Ids : Disconnect(id) /\ Quiet
  \/ \E id \in Ids : captureCounter < MaxCaptures /\ TriggerCapture(id) /\ Quiet
  \/ ticks < MaxTicks /\ Tick /\ Quiet

Spec == Init /\ [][Next]_vars

\* one run in which any connected phone may send the two requests that are
\* reserved to the master
NextSelect ==
  \/ \E id \in Ids : Connect(id) /\ Quiet
  \/ \E id \in Ids : Disconnect(id) /\ Quiet
  \/ \E id \in Ids : \E phoneId \in Ids \cup {None, Null} : SelectFlashPhone(id, phoneId) /\ Quiet
  \/ \E id \in Ids : captureCounter < MaxCaptures /\ TriggerCapture(id) /\ Quiet

SpecSelect == Init /\ [][NextSelect]_vars

\* a long run of one session: the first phones connect and the master
\* triggers capture after capture
NextLong ==
  \/ \E id \in Ids : captures = <<>> /\ Connect(id) /\ Quiet
  \/ \E id \in Ids : captureCounter < MaxLongCaptures /\ IsMaster(id, masterClient)
                       /\ TriggerCapture(id) /\ Quiet
  \/ ticks < MaxTicks /\ captures = <<>> /\ Tick /\ Quiet

SpecLong == Init /\ [][NextLong]_vars

\* runs separated by process restarts, with uploads to durable storage
NextRestart ==
  \/ \E id \in Ids : Connect(id) /\ Quiet
  \/ \E id \in Ids : captureCounter < MaxCaptures /\ TriggerCapture(id) /\ Quiet
  \/ \E id \in Ids : Cardinality(storage) < MaxUploads /\ Upload(id) /\ Quiet
  \/ run < MaxRestarts /\ Restart /\ Quiet

SpecRestart == Init /\ [][NextRestart]_vars

\* a run in which phones also send the event the coordinator has no handler
\* for; the event loop runs every handler whose event has arrived
NextSync ==
  \/ \E id \in Ids : Connect(id) /\ Quiet
  \/ \E id \in Ids : Disconnect(id) /\ Quiet
  \/ \E id \in Ids : captureCounter < MaxCaptures /\ TriggerCapture(id) /\ Quiet
  \/ \E id \in Ids : \E ev \in Unhandled : UnhandledEvent(id, ev) /\ Quiet
  \/ ticks < MaxTicks /\ Tick /\ Quiet

SpecSync == Init /\ [][NextSync]_vars /\ WF_vars(NextSync)

\* a run in which phones report whether they have a torch
NextRegister ==
  \/ \E id \in Ids : Connect(id) /\ Quiet
  \/ \E id \in Ids : Disconnect(id) /\ Quiet
  \/ \E id \in Ids : \E flash \in BOOLEAN : RegisterFlash(id, flash) /\ Quiet

SpecRegister == Init /\ [][NextRegister]_vars

\* a run in which phones report the clips they have uploaded
NextUploaded ==
  \/ \E id \in Ids : Connect(id) /\ Quiet
  \/ \E id \in Ids : Disconnect(id) /\ Quiet
  \/ \E id \in Ids : captureCounter < MaxCaptures /\ TriggerCapture(id) /\ Quiet
  \/ \E id \in Ids : VideoUploaded(id) /\ Quiet

SpecUploaded == Init /\ [][NextUploaded]_vars

\* a run in which the messages of the coordinator travel to the phones and
\* the phones handle them; a disconnected phone's channel is gone
NextFlash ==
  \/ \E id \in Ids : /\ Connect(id)
                       /\ channel' = Posted(channel, sent')
                       /\ selected' = [selected EXCEPT !.times = 0]
                       /\ \A p \in Ids : Len(channel'[p]) <= MaxInFlight
                       /\ UNCHANGED <<lost, isFlashPhone, agentVars, orderVars, storeVars>>
  \/ \E id \in Ids : /\ Disconnect(id)
                       /\ channel' = [Posted(channel, sent') EXCEPT ![id] = <<>>]
                       /\ selected' = [selected EXCEPT !.times = 0]
                       /\ \A p \in Ids : Len(channel'[p]) <= MaxInFlight
                       /\ UNCHANGED <<lost, isFlashPhone, agentVars, orderVars, storeVars>>
  \/ \E id \in Ids : \E phoneId \in Ids \cup {None} :
       /\ IsMaster(id, masterClient)
       /\ SelectFlashPhone(id, phoneId)
       /\ channel' = Posted(channel, sent')
       /\ selected' = Reselected(selected, id, phoneId)
       /\ selected'.times <= MaxRepeats
       /\ \A p \in Ids : Len(channel'[p]) <= MaxInFlight
       /\ UNCHANGED <<lost, isFlashPhone, agentVars, orderVars, storeVars>>
  \/ \E id \in Ids : Deliver(id)

SpecFlash == Init /\ [][NextFlash]_vars

\* a run in which the role, status and capture messages of the coordinator
\* travel to the phones and the phones' handlers run for them
NextOrder ==
  \/ \E id \in Ids : /\ Cardinality(usedIds) < MaxPhones
                       /\ Connect(id)
                       /\ channel' = PostedOf(Ordered, channel, sent')
                       /\ issued' = PostedOf(Ordered, issued, sent')
                       /\ \A p \in Ids : Len(channel'[p]) <= MaxInFlight
                       /\ UNCHANGED <<lost, isFlashPhone, selected, agentVars, seen, handled, storeVars>>
  \/ \E id \in Ids : /\ Disconnect(id)
                       /\ channel' = [PostedOf(Ordered, channel, sent') EXCEPT ![id] = <<>>]
                       /\ issued' = PostedOf(Ordered, issued, sent')
                       /\ \A p \in Ids : Len(channel'[p]) <= MaxInFlight
                       /\ UNCHANGED <<lost, isFlashPhone, selected, agentVars, seen, handled, storeVars>>
  \/ \E id \in Ids : /\ captureCounter < MaxCaptures
                       /\ TriggerCapture(id)
                       /\ channel' = PostedOf(Ordered, channel, sent')
                       /\ issued' = PostedOf(Ordered, issued, sent')
                       /\ \A p \in Ids : Len(channel'[p]) <= MaxInFlight
                       /\ UNCHANGED <<lost, isFlashPhone, selected, agentVars, seen, handled, storeVars>>
  \/ \E id \in Ids : Observe(id)

SpecOrder == Init /\ [][NextOrder]_vars

\* a run of the coordinator in which the role, status and capture messages
\* emitted to each socket are kept
NextSessions ==
  \/ \E id \in Ids : /\ Cardinality(usedIds) < MaxPhones
                       /\ Connect(id)
                       /\ issued' = PostedOf(Ordered, issued, sent')
                       /\ UNCHANGED <<lost, channel, isFlashPhone, selected, agentVars, seen,
                                      handled, storeVars>>
  \/ \E id \in Ids : /\ Disconnect(id)
                       /\ issued' = PostedOf(Ordered, issued, sent')
                       /\ UNCHANGED <<lost, channel, isFlashPhone, selected, agentVars, seen,
                                      handled, storeVars>>
  \/ \E id \in Ids : /\ captureCounter < MaxCaptures
                       /\ TriggerCapture(id)
                       /\ issued' = PostedOf(Ordered, issued, sent')
                       /\ UNCHANGED <<lost, channel, isFlashPhone, selected, agentVars, seen,
                                      handled, storeVars>>
  \/ ticks < MaxTicks /\ Tick /\ Quiet

SpecSessions == Init /\ [][NextSessions]_vars

\* a run in which a phone uploads the clip of a capture it received
NextStore ==
  \/ \E id \in Ids : Cardinality(usedIds) < MaxPhones /\ Connect(id) /\ Quiet
  \/ \E id \in Ids : Disconnect(id) /\ Quiet
  \/ \E id \in Ids : captureCounter < MaxStoreCaptures /\ TriggerCapture(id) /\ Quiet
  \/ \E id \in Ids : \E k \in 1..MaxStoreCaptures :
       Len(requests) < MaxUploads /\ PostUpload(id, k)
  \/ \E r \in 1..MaxUploads : \E ok \in BOOLEAN : PutVideo(r, ok)
  \/ \E r \in 1..MaxUploads : \E ok \in BOOLEAN : PutMetadata(r, ok)
  \/ \E r \in 1..MaxUploads : Response(r)

SpecStore == Init /\ [][NextStore]_vars

\* a run in which several phones upload their clips of one capture
NextKeys ==
  \/ \E id \in Ids : Cardinality(usedIds) < MaxPhones /\ Connect(id) /\ Quiet
  \/ \E id \in Ids : Disconnect(id) /\ Quiet
  \/ \E id \in Ids : captureCounter < MaxStoreCaptures /\ TriggerCapture(id) /\ Quiet
  \/ \E id \in Ids : \E k \in 1..MaxStoreCaptures :
       Len(requests) < MaxRequests /\ PostUpload(id, k)
  \/ \E r \in 1..MaxRequests : \E ok \in BOOLEAN : PutVideo(r, ok)
  \/ \E r \in 1..MaxRequests : \E ok \in BOOLEAN : PutMetadata(r, ok)
  \/ \E r \in 1..MaxRequests : Response(r)

SpecKeys == Init /\ [][NextKeys]_vars

\* a run in which the master selects flash phones and triggers a capture
\* while phones come, go and come back
NextLight ==
  \/ \E id \in Ids : /\ Connect(id)
                       /\ channel' = PostedOf(Lit, channel, sent')
                       /\ UNCHANGED <<lost, isFlashPhone, selected, agentVars, orderVars, storeVars>>
  \/ \E old, id \in Ids : Reconnect(old, id)
  \/ \E id \in Ids : /\ Disconnect(id)
                       /\ channel' = [PostedOf(Lit, channel, sent') EXCEPT ![id] = <<>>]
                       /\ UNCHANGED <<lost, isFlashPhone, selected, agentVars, orderVars, storeVars>>
  \/ \E id \in Ids : \E phoneId \in Ids :
       /\ IsMaster(id, masterClient)
       /\ SelectFlashPhone(id, phoneId)
       /\ channel' = PostedOf(Lit, channel, sent')
       /\ \A p \in Ids : Len(channel'[p]) <= MaxInFlight
       /\ UNCHANGED <<lost, isFlashPhone, selected, agentVars, orderVars, storeVars>>
  \/ \E id \in Ids : /\ IsMaster(id, masterClient)
                       /\ captureCounter < MaxStoreCaptures
                       /\ TriggerCapture(id)
                       /\ channel' = PostedOf(Lit, channel, sent')
                       /\ \A p \in Ids : Len(channel'[p]) <= MaxInFlight
                       /\ UNCHANGED <<lost, isFlashPhone, selected, agentVars, orderVars, storeVars>>
  \/ \E id \in Ids : Handle(id)

SpecLight == Init /\ [][NextLight]_vars

\* a run in which channels may close without a disconnect event; the
\* disconnect handler runs for the other sockets only, and the event loop runs
\* every handler whose event has arrived
NextLost ==
  \/ \E id \in Ids : Connect(id) /\ Quiet
  \/ \E id \in Ids : id \notin lost /\ Disconnect(id) /\ Quiet
  \/ \E id \in Ids : ChannelLost(id)
  \/ ticks < MaxTicks /\ Tick /\ Quiet

SpecLost == Init /\ [][NextLost]_vars /\ WF_vars(NextLost)

\* one phone from page load on: its recorder, its timers, the capture and
\* set-flash-phone messages that reach it and the uploads it makes
NextPhone ==
  \/ \E camera, torch \in BOOLEAN : PageInit(camera, torch)
  \/ DataAvailable
  \/ arrivals < MaxArrivals /\ Capture
  \/ \E t \in tasks : FlashDone(t)
  \/ \E t \in tasks : SaveVideo(t)
  \/ \E t \in tasks : FinalData(t)
  \/ \E t \in tasks : Finalize(t)
  \/ \E t \in tasks : \E ok \in BOOLEAN : UploadDone(t, ok)
  \/ \E value \in BOOLEAN : SetFlash(value) /\ UNCHANGED handled
  \/ clock < MaxSteps * Step /\ Pass

SpecPhone == Init /\ [][NextPhone]_vars

\* the role messages that reach the followed phone
RoleData == [role : {"master", "client"}, sessionId : {StartTime}]

\* the status messages that reach it
StatusData == [totalClients : 1..MaxPhones]

\* one phone from page load on, with a capture and the messages that reach
\* it meanwhile
NextInbox ==
  \/ \E camera, torch \in BOOLEAN : PageInit(camera, torch)
  \/ DataAvailable
  \/ arrivals < MaxBusy /\ Capture
  \/ \E t \in tasks : FlashDone(t)
  \/ \E t \in tasks : SaveVideo(t)
  \/ \E t \in tasks : FinalData(t)
  \/ \E t \in tasks : Finalize(t)
  \/ \E t \in tasks : \E ok \in BOOLEAN : UploadDone(t, ok)
  \/ \E value \in BOOLEAN :
       connected /\ SetFlash(value) /\ handled' = Logged(handled, "set-flash-phone")
  \/ \E data \in RoleData : Role(data) /\ handled' = Logged(handled, "role")
  \/ \E data \in StatusData : Status(data) /\ handled' = Logged(handled, "status")
  \/ clock < MaxBusySteps * Step /\ Pass

SpecInbox == Init /\ [][NextInbox]_vars

\* one phone from page load on, with a capture, while its socket disconnects
\* and reconnects
NextDrop ==
  \/ \E camera, torch \in BOOLEAN : PageInit(camera, torch)
  \/ DataAvailable
  \/ arrivals < MaxBusy /\ Capture
  \/ \E t \in tasks : SaveVideo(t)
  \/ \E t \in tasks : FinalData(t)
  \/ \E t \in tasks : Finalize(t)
  \/ \E t \in tasks : \E ok \in BOOLEAN : UploadDone(t, ok)
  \/ PhoneDisconnect
  \/ PhoneReconnect
  \/ clock < MaxBusySteps * Step /\ Pass

SpecDrop == Init /\ [][NextDrop]_vars

\* one phone from page load on, with captures that arrive early enough for
\* their save to end within the run; the event loop runs every timer that is
\* due and every event that has arrived, time passes, and every upload
\* request is answered or fails
NextReturn ==
  \/ \E camera, torch \in BOOLEAN : PageInit(camera, torch)
  \/ DataAvailable
  \/ /\ arrivals < MaxBusy
     /\ clock + FlashPulse + CaptureWait + StopWait <= MaxReturnSteps * Step
     /\ Capture
  \/ \E t \in tasks : FlashDone(t)
  \/ \E t \in tasks : SaveVideo(t)
  \/ \E t \in tasks : FinalData(t)
  \/ \E t \in tasks : Finalize(t)
  \/ \E t \in tasks : \E ok \in BOOLEAN : UploadDone(t, ok)
  \/ \E value \in BOOLEAN : SetFlash(value) /\ UNCHANGED handled
  \/ clock < MaxReturnSteps * Step /\ Pass

SpecReturn ==
  /\ Init /\ [][NextReturn]_vars
  /\ WF_vars(DataAvailable)
  /\ WF_vars(\E t \in tasks : FlashDone(t))
  /\ WF_vars(\E t \in tasks : SaveVideo(t))
  /\ WF_vars(\E t \in tasks : FinalData(t))
  /\ WF_vars(\E t \in tasks : Finalize(t))
  /\ WF_vars(\E t \in tasks : \E ok \in BOOLEAN : UploadDone(t, ok))
  /\ WF_vars(clock < MaxReturnSteps * Step /\ Pass)

\* one phone recording for long enough to fill its buffer, with a capture
\* once the countdown has shown the buffer ready
NextBuffer ==
  \/ \E camera, torch \in BOOLEAN : PageInit(camera, torch)
  \/ DataAvailable
  \/ bufferReady /\ arrivals < MaxBusy /\ Capture
  \/ \E t \in tasks : SaveVideo(t)
  \/ \E t \in tasks : FinalData(t)
  \/ \E t \in tasks : Finalize(t)
  \/ \E t \in tasks : \E ok \in BOOLEAN : UploadDone(t, ok)
  \/ clock < MaxBufferSteps * Step /\ Pass

SpecBuffer == Init /\ [][NextBuffer]_vars

\* one phone from page load on, with a capture, where the last data of the
\* stopped recorder may arrive at any later time
NextLate ==
  \/ \E camera, torch \in BOOLEAN : PageInit(camera, torch)
  \/ DataAvailable
  \/ arrivals < MaxBusy /\ Capture
  \/ \E t \in tasks : SaveVideo(t)
  \/ \E t \in tasks : FinalData(t)
  \/ \E t \in tasks : Late(t)
  \/ \E t \in tasks : Finalize(t)
  \/ \E t \in tasks : \E ok \in BOOLEAN : UploadDone(t, ok)
  \/ clock < MaxBusySteps * Step /\ Pass

SpecLate == Init /\ [][NextLate]_vars

\* a run in which upload requests fail
NextFailed ==
  \/ \E id \in Ids : Connect(id) /\ Quiet
  \/ \E id \in Ids : Disconnect(id) /\ Quiet
  \/ \E id \in Ids : captureCounter < MaxCaptures /\ TriggerCapture(id) /\ Quiet
  \/ \E id \in Ids : \E stage \in {"video", "metadata"} :
       UploadFailed(id, stage) /\ Cardinality(storage') <= MaxUploads /\ Quiet

SpecFailed == Init /\ [][NextFailed]_vars

\* ------------------------------------------------------- reading the state
RECURSIVE ParseCounter(_, _)
\* the number written by the digits of s before its first underscore
ParseCounter(s, acc) ==
  IF Len(s) = 0 \/ Head(s) = ChUnderscore THEN acc
  ELSE ParseCounter(Tail(s), 10 * acc + (Head(s) - Ch0))

\* the leading counter field of a folder name
CounterField(folder) == ParseCounter(folder, 0)

\* the characters of a folder name before its first underscore
RECURSIVE CounterText(_)
CounterText(s) == IF Len(s) = 0 \/ Head(s) = ChUnderscore THEN <<>> ELSE <<Head(s)>> \o CounterText(Tail(s))

RECURSIVE TrailingField(_)
\* the characters of a folder name after its last underscore
TrailingField(s) ==
  IF Len(s) = 0 \/ s[Len(s)] = ChUnderscore THEN <<>>
  ELSE TrailingField(SubSeq(s, 1, Len(s) - 1)) \o <<s[Len(s)]>>

\* the messages of type ty in the last emission
SentOfType(ty) == SelectSeq(sent, LAMBDA m : m.msg.type = ty)

\* how many capture messages with folder name f the socket id has received
TimesReceived(id, f) ==
  Cardinality({k \in 1..Len(captureLog[id]) : captureLog[id][k].msg.folderName = f})

\* ------------------------------------------------------------------ claims

\* C1: the master designation is empty exactly when the roster is empty and
\* otherwise names exactly one device that is in the roster.
C1_OneMasterIffRosterNonEmpty ==
  /\ (masterClient = Null) <=> (Len(clients) = 0)
  /\ Len(clients) > 0 =>
       Cardinality({i \in 1..Len(clients) : clients[i].id = masterClient}) = 1

\* C1 witness: the master has left, two phones remain and one of them is master
C1_Witness ==
  /\ lastOp.op = "disconnect"
  /\ Len(clients) >= 2
  /\ Len(SentOfType("role")) = 1
  /\ masterClient \in KeySet

\* C2: when the master disconnects and other devices remain, the same step
\* makes the remaining device that is first in insertion order (none
\* connected earlier) the master, and sends exactly one role message, with
\* role master, to that device only.
C2_PromoteEarliestRemaining ==
  [][\A id \in Ids :
       (lastOp' = [op |-> "disconnect", id |-> id] /\ id = masterClient /\ Len(clients) >= 2
          /\ lastOp'.id \notin sockets' /\ id \in sockets)
       => LET remaining == SelectSeq(clients, LAMBDA c : c.id # id)
              promoted == remaining[1]
              roles == SelectSeq(sent', LAMBDA m : m.msg.type = "role")
          IN /\ masterClient' = promoted.id
             /\ masterClient' \in {clients'[i].id : i \in 1..Len(clients')}
             /\ \A i \in 1..Len(remaining) : ~TimeLess(remaining[i].connected, promoted.connected)
             /\ Len(roles) = 1
             /\ roles[1].to = promoted.id
             /\ roles[1].msg.role = "master"]_vars

\* C2 witness: a disconnect of the master left two phones, and the one role
\* message of the step went to the new master, the first of the roster
C2_Witness ==
  /\ lastOp.op = "disconnect"
  /\ Len(clients) = 2
  /\ Len(SentOfType("role")) = 1
  /\ SentOfType("role")[1].to = clients[1].id
  /\ masterClient = clients[1].id

\* C3: a trigger-capture or select-flash-phone from a connected device that
\* is not the master emits nothing and leaves the master designation, the
\* roster, the session identifier and the capture counter unchanged.
C3_NonMasterIgnored ==
  [][(lastOp'.op \in {"trigger-capture", "select-flash-phone"} /\ lastOp'.id # masterClient)
       => /\ sent' = <<>>
          /\ UNCHANGED <<masterClient, clients, sessionId, captureCounter>>]_vars

\* C3 witness: a connected phone that is not the master has just asked for a
\* capture while a master exists
C3_Witness ==
  /\ lastOp.op = "trigger-capture"
  /\ lastOp.id \in KeySet
  /\ masterClient \in KeySet
  /\ lastOp.id # masterClient
  /\ sent = <<>>

\* C4: every capture event has been delivered exactly once to each device
\* that was in the roster when it was triggered, with the timestamp, session
\* identifier and folder name of the event, and never to any other device
\* (so never to one that connected later); every capture message a device
\* holds is one of these.
C4_CaptureOncePerRosterMember ==
  /\ \A k \in 1..Len(captures) : \A id \in Ids :
       /\ TimesReceived(id, captures[k].folderName)
            = (IF id \in captures[k].roster THEN 1 ELSE 0)
       /\ \A n \in 1..Len(captureLog[id]) :
            captureLog[id][n].msg.folderName = captures[k].folderName
              => /\ captureLog[id][n].msg.timestamp = captures[k].timestamp
                 /\ captureLog[id][n].msg.sessionId = captures[k].sessionId
  /\ \A id \in Ids : \A n \in 1..Len(captureLog[id]) :
       \E k \in 1..Len(captures) : captureLog[id][n].msg.folderName = captures[k].folderName
  /\ lastOp.op # "trigger-capture" => SentOfType("capture") = <<>>

\* C4 witness: a capture went to a roster of two, and a phone that connected
\* afterwards is connected now and holds no capture message
C4_Witness ==
  \E k \in 1..Len(captures) : \E late \in sockets :
    /\ Cardinality(captures[k].roster) >= 2
    /\ late \notin captures[k].roster
    /\ captureLog[late] = <<>>
    /\ \A id \in captures[k].roster : TimesReceived(id, captures[k].folderName) = 1

\* C5: within one run the counter fields of the capture events are strictly
\* increasing in creation order, hence no value is used twice, also across a
\* roster-empty session reset; and the counter is at least as large as the
\* number of capture events of the run.
C5_CounterStrictlyIncreasing ==
  /\ \A i, j \in 1..Len(captures) :
       (i < j /\ captures[i].run = captures[j].run)
         => CounterField(captures[i].folderName) < CounterField(captures[j].folderName)
  /\ \A i \in 1..Len(captures) :
       captures[i].run = run => CounterField(captures[i].folderName) < captureCounter

\* C5 witness: two capture events of one run with a session reset between them
C5_Witness ==
  /\ Len(captures) >= 2
  /\ captures[1].run = captures[2].run
  /\ captures[1].resets < captures[2].resets
  /\ captures[1].sessionId # captures[2].sessionId

\* C6: any two distinct capture events of one run have different folder names.
C6_FolderNamesDistinct ==
  \A i, j \in 1..Len(captures) :
    (i # j /\ captures[i].run = captures[j].run)
      => captures[i].folderName # captures[j].folderName

\* C6 witness: two capture events of one run in the same clock millisecond,
\* separated by a roster-empty session reset
C6_Witness ==
  /\ Len(captures) >= 2
  /\ captures[1].run = captures[2].run
  /\ captures[1].timestamp = captures[2].timestamp
  /\ captures[1].resets < captures[2].resets

\* C7 (as claimed): folder names sort as character strings in creation
\* order: the folder name of an earlier capture event of a run compares less
\* than that of every later one, whatever value the counter has reached.
C7_FoldersSortInCreationOrder ==
  \A i, j \in 1..Len(captures) :
    (i < j /\ captures[i].run = captures[j].run)
      => StrLess(captures[i].folderName, captures[j].folderName)

C9_SessionIdsFresh ==
  \A i, j \in 1..Len(sessions) : i < j => sessions[i] # sessions[j]

C12_StatusAfterRosterChange ==
  [][lastOp'.op \in {"connect", "disconnect"}
       => LET status == SelectSeq(sent', LAMBDA m : m.msg.type = "status")
          IN /\ \A id \in Ids :
                  Cardinality({n \in 1..Len(status) : status[n].to = id})
                    = (IF id \in sockets' THEN 1 ELSE 0)
             /\ \A n \in 1..Len(status) :
                  /\ status[n].msg.totalClients = Len(clients')
                  /\ status[n].msg.sessionId = sessionId']_vars

\* C12 witness: after a session reset at a later clock reading, a disconnect
\* left one phone, which was told of a roster of one and of the new session
C12_Witness ==
  /\ lastOp.op = "disconnect"
  /\ Len(clients) = 1
  /\ sessionId # StartTime
  /\ Len(SentOfType("status")) = 1
  /\ SentOfType("status")[1].to = clients[1].id
  /\ SentOfType("status")[1].msg.totalClients = 1
  /\ SentOfType("status")[1].msg.sessionId = sessionId

\* C14: a register-flash from a device in the roster sets the capability of
\* that device, and of no other, to the reported value and sends one
\* flash-phones-list, to the master only, that names exactly the roster
\* devices whose capability is then true; a register-flash from a device that
\* is not in the roster changes no state and sends nothing.
C14_RegisterFlash ==
  [][lastOp'.op = "register-flash"
       => LET id == lastOp'.id
              capable == {clients'[i].id : i \in {k \in 1..Len(clients') : clients'[k].hasFlash}}
          IN IF id \in KeySet
             THEN /\ Len(clients') = Len(clients)
                  /\ \A i \in 1..Len(clients) :
                       IF clients[i].id = id
                       THEN clients'[i] = [clients[i] EXCEPT !.hasFlash = lastOp'.hasFlash]
                       ELSE clients'[i] = clients[i]
                  /\ UNCHANGED <<masterClient, sessionId, captureCounter, sockets>>
                  /\ masterClient # Null
                       => /\ Len(sent') = 1
                          /\ sent'[1].to = masterClient
                          /\ sent'[1].msg.type = "flash-phones-list"
                          /\ {sent'[1].msg.phones[n].id : n \in 1..Len(sent'[1].msg.phones)}
                               = capable
                          /\ Len(sent'[1].msg.phones) = Cardinality(capable)
                  /\ \A n \in 1..Len(sent') : sent'[n].to = masterClient
             ELSE /\ sent' = <<>>
                  /\ UNCHANGED <<masterClient, clients, sessionId, captureCounter, sockets>>]_vars

\* C14 witness: in a roster of three a phone that is not the master has just
\* reported a torch, and the list sent to the master names two of the three
C14_Witness ==
  /\ lastOp.op = "register-flash"
  /\ lastOp.id \in KeySet
  /\ lastOp.id # masterClient
  /\ lastOp.hasFlash
  /\ Len(clients) = 3
  /\ Len(sent) = 1
  /\ sent[1].to = masterClient
  /\ Len(sent[1].msg.phones) = 2

\* C15: a video-uploaded notification leaves the master designation, the
\* roster, the session identifier and the capture counter unchanged and sends
\* no message to any device.
C15_VideoUploadedChangesNothing ==
  [][lastOp'.op = "video-uploaded"
       => /\ sent' = <<>>
          /\ UNCHANGED <<masterClient, clients, sessionId, captureCounter>>]_vars

\* C15 witness: after a capture in a roster of two, a phone that is not the
\* master has just reported its upload
C15_Witness ==
  /\ lastOp.op = "video-uploaded"
  /\ lastOp.id \in KeySet
  /\ lastOp.id # masterClient
  /\ Len(clients) >= 2
  /\ captureLog[lastOp.id] # <<>>
  /\ sent = <<>>

\* C13: when the master has selected the same target one or more times in a
\* row and every message to a connected phone has been delivered, isFlashPhone
\* is true on the target and false on every other connected phone (false on
\* all when the target is "none" or not connected): a second selection in a
\* row leaves every phone as the first left it.
C13_SelectionIdempotent ==
  (selected.times >= 1 /\ \A id \in sockets : channel[id] = <<>>)
    => \A id \in sockets : isFlashPhone[id] = (id = selected.target)

\* C13 witness: the same connected target has been selected twice in a row
\* after another phone had been the flash phone, all messages are delivered,
\* and of three phones only the target holds the flag
C13_Witness ==
  /\ selected.times = 2
  /\ selected.target \in sockets
  /\ Cardinality(sockets) = 3
  /\ \A id \in sockets : channel[id] = <<>>
  /\ {id \in Ids : isFlashPhone[id]} = {selected.target}
  /\ selected.target # masterClient

C17_ClipHoldsMarker ==
  \A i \in 1..Len(uploads) :
    /\ uploads[i].at > markers[uploads[i].cap].at
    /\ \E j \in 1..Len(uploads[i].clip) : uploads[i].cap \in uploads[i].clip[j].heard

\* C18 (as claimed): a capture message that arrives while the phone has an
\* upload in flight never leads to a clip being put together or uploaded for
\* that message.
C18_BusyCaptureRejected ==
  \A i \in 1..Len(uploads) : ~markers[uploads[i].cap].uploading

C20_NoUploadBeforeBufferReady ==
  \A i \in 1..Len(uploads) : markers[uploads[i].cap].ready

\* C26: the role of a connected device changes only from participant to
\* master and only in the step that handles the disconnect of the master, so
\* at most once; a master stays master while it is connected; a new
\* connection is the master exactly when there is none, is told so in its role
\* message and otherwise leaves the master as it is, whoever reconnects.
C26_RoleChangesOnlyByPromotion ==
  [][\A id \in Ids :
       /\ (id \in sockets /\ id \in sockets' /\ (id = masterClient) # (id = masterClient'))
            => /\ id # masterClient
               /\ id = masterClient'
               /\ lastOp' = [op |-> "disconnect", id |-> masterClient]
       /\ (id \in sockets /\ id \in sockets' /\ id = masterClient) => masterClient' = id
       /\ (id \notin sockets /\ id \in sockets')
            => /\ (id = masterClient') <=> (masterClient = Null)
               /\ masterClient # Null => masterClient' = masterClient
               /\ \E n \in 1..Len(sent') :
                    /\ sent'[n].to = id
                    /\ sent'[n].msg.type = "role"
                    /\ sent'[n].msg.role = (IF masterClient = Null THEN "master" ELSE "client")
               /\ Cardinality({n \in 1..Len(sent') : sent'[n].msg.type = "role"}) = 1]_vars

\* C26 witness: the first master has left, the second phone was promoted,
\* and a phone that connected after that was told it is a client
C26_Witness ==
  /\ lastOp.op = "connect"
  /\ SocketIds[1] \in usedIds \ sockets
  /\ masterClient = SocketIds[2]
  /\ lastOp.id # masterClient
  /\ \E n \in 1..Len(sent) :
       sent[n].to = lastOp.id /\ sent[n].msg.type = "role" /\ sent[n].msg.role = "client"

\* C27: the folder name of the first capture event of a run has the counter
\* field "00"; the counter field of every folder name is the number of
\* capture events created earlier in the run; and the trailing field of the
\* folder name in every capture message is the timestamp of that message
\* and of the capture event.
C27_FolderFields ==
  /\ \A k \in 1..Len(captures) :
       LET earlier == {i \in 1..(k - 1) : captures[i].run = captures[k].run}
       IN /\ earlier = {} => CounterText(captures[k].folderName) = <<Ch0, Ch0>>
          /\ CounterField(captures[k].folderName) = Cardinality(earlier)
          /\ TrailingField(captures[k].folderName) = TimeString(captures[k].timestamp)
  /\ \A id \in Ids : \A n \in 1..Len(captureLog[id]) :
       TrailingField(captureLog[id][n].msg.folderName)
         = TimeString(captureLog[id][n].msg.timestamp)

\* C27 witness: two capture events at different clock readings, the second
\* delivered to two phones
C27_Witness ==
  /\ Len(captures) = 2
  /\ captures[1].timestamp # captures[2].timestamp
  /\ Cardinality(captures[2].roster) >= 2
  /\ \A id \in captures[2].roster : TimesReceived(id, captures[2].folderName) = 1
  /\ CounterText(captures[2].folderName) = <<Ch0, Ch0 + 1>>

\* C28: the disconnect of a device that is not the master, while the master
\* stays connected, leaves the master designation, the session identifier
\* and the capture counter unchanged, removes that device and no other from
\* the roster, and sends status messages only.
C28_ParticipantDisconnectFrame ==
  [][(lastOp'.op = "disconnect" /\ lastOp'.id \in sockets /\ lastOp'.id # masterClient
        /\ masterClient \in sockets)
       => /\ UNCHANGED <<masterClient, sessionId, captureCounter>>
          /\ clients' = SelectSeq(clients, LAMBDA c : c.id # lastOp'.id)
          /\ Len(clients') = Len(clients) - 1
          /\ sent' # <<>>
          /\ \A n \in 1..Len(sent') : sent'[n].msg.type = "status"]_vars

\* C28 witness: a device that was not the master has just left a roster of
\* three, and the two that remain were sent a status and nothing else
C28_Witness ==
  /\ lastOp.op = "disconnect"
  /\ lastOp.id # masterClient
  /\ masterClient = SocketIds[1]
  /\ Len(clients) = 2
  /\ Len(sent) = 2
  /\ Len(SentOfType("status")) = 2

\* C25: a failed upload request leaves the master designation, the roster,
\* the session identifier and the capture counter unchanged and sends no
\* message; and the step that follows it is honored as any other: a trigger of
\* the master increments the counter and is broadcast to every socket, a
\* disconnect removes the device, a connection adds one.
C25_FailedUploadFrame ==
  [][/\ lastOp'.op = "upload-failed"
          => /\ sent' = <<>>
             /\ UNCHANGED <<masterClient, clients, sessionId, captureCounter, sockets>>
     /\ lastOp.op = "upload-failed"
          => /\ (lastOp'.op = "trigger-capture" /\ lastOp'.id = masterClient)
                  => /\ captureCounter' = captureCounter + 1
                     /\ Len(SelectSeq(sent', LAMBDA m : m.msg.type = "capture"))
                          = Cardinality(sockets)
             /\ lastOp'.op = "disconnect"
                  => /\ lastOp'.id \notin sockets'
                     /\ Len(clients') = Len(clients) - 1
             /\ lastOp'.op = "connect"
                  => /\ lastOp'.id \in sockets'
                     /\ Len(clients') = Len(clients) + 1]_vars

\* C25 witness: in a roster of two, after a capture, an upload request of
\* the device that is not the master has just failed
C25_Witness ==
  /\ lastOp.op = "upload-failed"
  /\ lastOp.id \in sockets
  /\ lastOp.id # masterClient
  /\ Len(clients) = 2
  /\ captureCounter = 1
  /\ sent = <<>>

\* C24: every phone's handlers have run for the capture, role and status
\* messages emitted to its socket in the order of their emission, none
\* skipped: what it has handled followed by what is on its way is what was
\* emitted to it. The capture messages a phone has handled carry strictly
\* increasing counters, so of two capture events the one triggered first is
\* handled first by every phone that was connected for both
C24_HandledInEmissionOrder ==
  /\ \A id \in sockets : seen[id] \o channel[id] = issued[id]
  /\ \A id \in Ids : \A i, j \in 1..Len(seen[id]) :
       (i < j /\ seen[id][i].type = "capture" /\ seen[id][j].type = "capture")
         => CounterField(seen[id][i].folderName) < CounterField(seen[id][j].folderName)

\* C24 witness: a phone that is connected has handled its role message, a
\* status message and two capture messages, and a second phone has handled
\* the same two capture messages
C24_Witness ==
  \E id, other \in sockets :
    /\ id # other
    /\ Len(seen[id]) >= 4
    /\ seen[id][1].type = "role"
    /\ \E i \in 1..Len(seen[id]) : seen[id][i].type = "status"
    /\ Cardinality({i \in 1..Len(seen[id]) : seen[id][i].type = "capture"}) = 2
    /\ Cardinality({i \in 1..Len(seen[other]) : seen[other][i].type = "capture"}) = 2
C22_SaveAbandoned ==
  \A i \in 1..Len(uploads) : ~markers[uploads[i].cap].dropped

\* C22 (amended): the disconnect of the phone's socket cancels nothing: the
\* step leaves the timers, the pending save, the recorder, the buffer and the
\* uploads as they are, and every capture whose save has finished has had
\* its clip handed to the upload, whether or not the socket was connected
C22_DisconnectCancelsNothing ==
  [][/\ (connected /\ ~connected')
         => UNCHANGED <<tasks, isUploading, mediaRecorder, recordedChunks, initSegment,
                        uploads>>
     /\ \A k \in 1..Len(markers') :
          markers'[k].fate = "done" => \E i \in 1..Len(uploads') : uploads'[i].cap = k]_vars

\* C22 witness: the socket disconnected during the wait after the tone and
\* is still disconnected, and the clip of that capture has been uploaded
C22_Witness ==
  /\ ~connected
  /\ \E i \in 1..Len(uploads) :
       /\ markers[uploads[i].cap].dropped
       /\ markers[uploads[i].cap].fate = "done"
       /\ uploads[i].outcome = "ok"

\* C23: whenever the phone is waiting after a capture or saving and uploading
\* a clip, the handlers of role, status and set-flash-phone can run for a
\* message that arrives, and they set myRole, sessionId, the shown count and
\* isFlashPhone to what the message says while the timers and the save stay
\* as they are
C23_HandlersRunDuringSave ==
  (page = "running" /\ connected /\ (tasks # {} \/ isUploading))
    => /\ \A data \in RoleData :
            ENABLED (/\ Role(data)
                     /\ myRole' = data.role /\ phoneSessionId' = data.sessionId
                     /\ handled' = handled)
       /\ \A data \in StatusData :
            ENABLED (/\ Status(data)
                     /\ clientCount' = data.totalClients
                     /\ handled' = handled)
       /\ \A value \in BOOLEAN :
            ENABLED (/\ SetFlash(value)
                     /\ isFlashPhone'[Me] = value
                     /\ handled' = handled)

\* C23 witness: the clip is uploading and the save has not finished; since
\* the capture arrived a role, a status and a set-flash-phone message have
\* been handled, and the phone's state is what they said
C23_Witness ==
  /\ isUploading
  /\ \E t \in tasks : t.pc = "uploading"
  /\ handled = {"role", "status", "set-flash-phone"}
  /\ myRole = "master"
  /\ clientCount = MaxPhones
  /\ isFlashPhone[Me]
\* the number of chunks the documents say the buffer keeps
DocumentedChunks == 5

C32_RosterRoleIsCurrent ==
  \A i \in 1..Len(clients) :
    (clients[i].role = "master") <=> (clients[i].id = masterClient)
\* C38: sessionId changes only in a disconnect step that leaves the roster
\* empty, and all the role, status and capture messages emitted to one
\* socket carry the same session identifier, so that every capture message
\* a phone receives names the session of the phone's role message
C38_SessionChangesOnlyWhenEmpty ==
  [][/\ sessionId' # sessionId => (lastOp'.op = "disconnect" /\ clients' = <<>>)
     /\ \A id \in Ids : \A i, j \in 1..Len(issued'[id]) :
          issued'[id][i].sessionId = issued'[id][j].sessionId]_vars

\* C38 witness: the session has changed; a phone of the first session and a
\* connected phone of the present session each received a role message and
\* a capture message
C38_Witness ==
  /\ sessionId # StartTime
  /\ \E old \in Ids \ sockets : \E id \in sockets :
       /\ \E i, j \in 1..Len(issued[old]) :
            /\ issued[old][i].type = "role" /\ issued[old][j].type = "capture"
            /\ issued[old][i].sessionId = StartTime
       /\ \E i, j \in 1..Len(issued[id]) :
            /\ issued[id][i].type = "role" /\ issued[id][j].type = "capture"
            /\ issued[id][j].sessionId = sessionId
\* C35: everything in an uploaded clip was recorded within the buffer window
\* (BUFFER_DURATION and the waits of the save) before the clip was put
\* together
C35_ClipWithinWindow ==
  \A u \in 1..Len(uploads) : \A i \in 1..Len(uploads[u].clip) :
    uploads[u].clip[i].from >= uploads[u].at - (BUFFER_DURATION + CaptureWait + StopWait)
\* C39: the master's phone can send trigger-capture only while its buffer is
\* full and it is not uploading: whenever the buffer of the master's phone
\* holds fewer chunks than the buffer is seconds long, its capture button is
\* disabled
C39_ButtonOffUntilBufferFull ==
  /\ CanTrigger => Len(recordedChunks) >= SecondsNeeded
  /\ (myRole = "master" /\ Len(recordedChunks) < SecondsNeeded) => captureBtn.disabled
C36_NotifiedOnlyWhenStored ==
  /\ \A r \in notified :
       /\ requests[r].pc = "settled"
       /\ VideoKey(requests[r].metadata) \in bucket
       /\ MetadataKey(requests[r].metadata) \in bucket
  /\ \A r \in 1..Len(requests) : requests[r].pc = "thrown" => r \notin notified

\* C36 witness: video-uploaded has been sent for a request that was
\* answered with success
C36_Witness ==
  \E r \in notified :
    /\ requests[r].pc = "settled"
    /\ MetadataKey(requests[r].metadata) \in bucket

\* C37: two upload requests of different phones or for different capture
\* messages are written under different keys
C37_DistinctKeys ==
  \A r, q \in 1..Len(requests) :
    (/\ requests[r].phone # requests[q].phone \/ requests[r].cap # requests[q].cap
     /\ requests[r].pc # "posted" /\ VideoKey(requests[r].metadata) \in bucket
     /\ requests[q].pc # "posted")
      => VideoKey(requests[r].metadata) # VideoKey(requests[q].metadata)
\* C33: a capture never fires the torch on two devices: of the phones that
\* handled the capture message of one capture, at most one had isFlashPhone
\* true
C33_OneLightPerCapture ==
  \A f, g \in fired : f.folder = g.folder => f.id = g.id

\* C34: every clip handed to the upload is made of the data of one recorder,
\* and the init segment and the chunks in the buffer are data of the recorder
\* that is the current one
C34_OneRecorderPerClip ==
  /\ \A u \in 1..Len(uploads) :
       \A i, j \in 1..Len(uploads[u].clip) : uploads[u].clip[i].rec = uploads[u].clip[j].rec
  /\ initSegment # NoSegment => initSegment.rec = mediaRecorder.n
  /\ \A i \in 1..Len(recordedChunks) : recordedChunks[i].data.rec = mediaRecorder.n

====